---- MODULE Spec2Model ----
(***************************************************************************)
(* Model of scripts/run-ci-e2e-tests.js: a sequential pipeline of external *)
(* commands inside try { ... } finally { ... }, followed by exit(exitCode). *)
(* Every exec()/spawn() of the script is one step; pc is the position of   *)
(* the script.  The exit code of each external command is an input drawn   *)
(* from ExitCodes.  require('./try-n-times') is not part of the sources at *)
(* hand; TryExecNTimes models it from its written contract.                *)
(***************************************************************************)
EXTENDS Integers, Sequences, FiniteSets

\* ---- bounds ----
MaxRetries == 2
MaxCode == 2

\* ---- encodings of JavaScript's undefined ----
Undefined == -1
NoPid == 0

ExitCodes == 0..MaxCode
\* values of argv.retries: 0 stands for an absent flag (or --retries 0, which
\* is falsy as well); yargs also parses a negative number
RetriesArgs == -1..MaxRetries

VARIABLES
  android, ios, tvos, js, skipCliInstall, retries,
  pc, exitCode, SERVER_PID, APPIUM_PID, iosTestType, thrown, exitStatus,
  spawned, terminated, killedByPid, sweeps,
  executed, messages, finalRuns,
  anyNonZero, failedStage, uninspected,
  rCall, rN, rTrace, rResult

argvVars == <<android, ios, tvos, js, skipCliInstall, retries>>
procVars == <<SERVER_PID, APPIUM_PID, iosTestType, spawned>>
killVars == <<terminated, killedByPid, sweeps>>
retryVars == <<rCall, rN, rTrace, rResult>>
vars == <<android, ios, tvos, js, skipCliInstall, retries,
          pc, exitCode, SERVER_PID, APPIUM_PID, iosTestType, thrown, exitStatus,
          spawned, terminated, killedByPid, sweeps,
          executed, messages, finalRuns,
          anyNonZero, failedStage, uninspected,
          rCall, rN, rTrace, rResult>>

\* const numberOfRetries = argv.retries || 1;  (0 stands for an absent or zero flag)
numberOfRetries == IF retries = 0 THEN 1 ELSE retries

\* ---- control flow between the conditional blocks of the try body ----
AfterIos == IF js THEN "bundle_android" ELSE "try_end"
AfterAndroid == IF ios \/ tvos THEN "spawn_packager_ios" ELSE AfterIos
AfterNpmInstall == IF android THEN "yarn_add_appium" ELSE AfterAndroid
AfterGradle == IF js THEN "flow_install" ELSE "npm_pack"
AfterCli == IF android THEN "gradle_install" ELSE AfterGradle

Init ==
  /\ android \in BOOLEAN /\ ios \in BOOLEAN /\ tvos \in BOOLEAN /\ js \in BOOLEAN
  /\ skipCliInstall \in BOOLEAN
  /\ retries \in RetriesArgs
  /\ pc = "cli_install"
  /\ exitCode = Undefined
  /\ SERVER_PID = NoPid /\ APPIUM_PID = NoPid
  /\ iosTestType = "none"
  /\ thrown = FALSE
  /\ exitStatus = Undefined
  /\ spawned = {} /\ terminated = {} /\ killedByPid = {} /\ sweeps = 0
  /\ executed = {} /\ messages = {} /\ finalRuns = 0
  /\ anyNonZero = FALSE /\ failedStage = "none" /\ uninspected = {}
  /\ rCall = "none" /\ rN = 0 /\ rTrace = <<>> /\ rResult = Undefined

\* ---- building blocks ----
\* exec(cmd) inside the try body returned code
Run(cmd, code) ==
  /\ executed' = executed \cup {cmd}
  /\ anyNonZero' = (anyNonZero \/ code # 0)

\* echo(...); exitCode = 1; throw Error(exitCode);
Throw_ExitDirectly(msgs) ==
  /\ messages' = messages \cup msgs
  /\ exitCode' = 1
  /\ thrown' = TRUE
  /\ pc' = "after_finally"
Throw(msgs) ==
  /\ messages' = messages \cup msgs
  /\ exitCode' = 1
  /\ thrown' = TRUE
  /\ pc' = "finally"

Continue(next) ==
  /\ pc' = next
  /\ UNCHANGED <<messages, exitCode, thrown>>

\* history (uninspected): the bare exec() statements of the try body whose
\* command returned non-zero
\* history: the first inspected result (a checked exec, or the value returned
\* by a tryExecNTimes call) that was non-zero
Noted(cmd, code) == IF failedStage = "none" /\ code # 0 THEN cmd ELSE failedStage

\* if (exec(cmd).code) { echo(msgs); exitCode = 1; throw Error(exitCode); }
ExecChecked(at, cmd, msgs, next) ==
  /\ pc = at
  /\ \E code \in ExitCodes :
       /\ Run(cmd, code)
       /\ failedStage' = Noted(cmd, code)
       /\ IF code # 0 THEN Throw(msgs) ELSE Continue(next)
  /\ UNCHANGED <<argvVars, procVars, killVars, retryVars, finalRuns, exitStatus, uninspected>>

\* a checked exec whose failure branch is missing: the result is inspected
\* but the script carries on
ExecChecked_NoThrow(at, cmd, next) ==
  /\ pc = at
  /\ \E code \in ExitCodes :
       /\ Run(cmd, code)
       /\ failedStage' = Noted(cmd, code)
  /\ Continue(next)
  /\ UNCHANGED <<argvVars, procVars, killVars, retryVars, finalRuns, exitStatus, uninspected>>

\* exec(cmd);  -- the exit code is not inspected
ExecUnchecked(at, cmd, next) ==
  /\ pc = at
  /\ \E code \in ExitCodes :
       /\ Run(cmd, code)
       /\ uninspected' = IF code # 0 THEN uninspected \cup {cmd} ELSE uninspected
  /\ Continue(next)
  /\ UNCHANGED <<argvVars, procVars, killVars, retryVars, finalRuns, exitStatus, failedStage>>

\* ---- the Retrier: tryExecNTimes(funcToRetry, retriesLeft, onEveryError) ----
OpCount(tr) == Cardinality({i \in 1..Len(tr) : tr[i].ev = "op"})
RecoverCount(tr) == Cardinality({i \in 1..Len(tr) : tr[i].ev = "recover"})

RetrierReturns_OneMore(code, made, N) == code = 0 \/ made > N
\* the call returns after a successful attempt or when no attempt remains
RetrierReturns(code, made, N) == code = 0 \/ made >= N

RecoveryTarget_Skip(at, recoverPc) == at
\* between a failed attempt and the next one the recovery action runs
RecoveryTarget(at, recoverPc) == recoverPc

\* if (tryExecNTimes(() => exec(cmd).code, N, recovery)) { echo(msgs); exitCode = 1; throw ... }
\* one step is one invocation of the operation; recoverPc = at when no
\* recovery action is passed
TryExecNTimes(at, cmd, N, recoverPc, msgs, next) ==
  /\ pc = at
  /\ \E code \in ExitCodes :
       LET tr == Append(IF rCall = at THEN rTrace ELSE <<>>,
                        [ev |-> "op", code |-> code, rm |-> FALSE])
       IN  /\ Run(cmd, code)
           /\ rCall' = at /\ rN' = N /\ rTrace' = tr
           /\ IF RetrierReturns(code, OpCount(tr), N)
              THEN /\ rResult' = code
                   /\ failedStage' = Noted(cmd, code)
                   /\ IF code # 0 THEN Throw(msgs) ELSE Continue(next)
              ELSE /\ rResult' = Undefined
                   /\ UNCHANGED failedStage
                   /\ Continue(RecoveryTarget(at, recoverPc))
  /\ UNCHANGED <<argvVars, procVars, killVars, finalRuns, exitStatus, uninspected>>

\* the recovery callbacks: () => exec('sleep 10s')  and
\* () => { rm('-rf', 'EndToEndTest'); exec('sleep 10s'); }
Recovery(at, removesProject, backTo) ==
  /\ pc = at
  /\ \E code \in ExitCodes : Run("sleep 10s", code)
  /\ rTrace' = Append(rTrace, [ev |-> "recover", code |-> Undefined, rm |-> removesProject])
  /\ Continue(backTo)
  /\ UNCHANGED <<argvVars, procVars, killVars, rCall, rN, rResult, finalRuns, exitStatus,
                 failedStage, uninspected>>

\* const p = spawn(...); a fresh process identifier
NewPid == Cardinality(spawned) + 1

\* ---- Setup (lines 44-53) ----
CliInstall_NoThrow ==
  /\ ~skipCliInstall
  /\ ExecChecked_NoThrow("cli_install", "yarn global add react-native-cli", AfterCli)
CliInstall_IgnoreSkip ==
  ExecChecked("cli_install", "yarn global add react-native-cli",
              {"Could not install react-native-cli globally.",
               "Run with --skip-cli-install to skip this step"},
              AfterCli)
CliInstall ==
  /\ ~skipCliInstall
  /\ ExecChecked("cli_install", "yarn global add react-native-cli",
                 {"Could not install react-native-cli globally.",
                  "Run with --skip-cli-install to skip this step"},
                 AfterCli)

SkipCliInstall ==
  /\ pc = "cli_install"
  /\ skipCliInstall
  /\ pc' = AfterCli
  /\ UNCHANGED <<argvVars, procVars, killVars, retryVars, finalRuns, exitStatus,
                 executed, anyNonZero, messages, exitCode, thrown, failedStage, uninspected>>

\* ---- platform pre-build (lines 55-82) ----
GradleInstall ==
  ExecChecked("gradle_install", "gradlew :ReactAndroid:installArchives",
              {"Failed to compile Android binaries"}, AfterGradle)

FlowInstall ==
  TryExecNTimes("flow_install", "npm install --save-dev flow-bin", numberOfRetries,
                "flow_install_recover",
                {"Failed to install Flow",
                 "Most common reason is npm registry connectivity, try again"},
                "npm_pack")

FlowInstallRecover == Recovery("flow_install_recover", FALSE, "flow_install")

\* ---- packaging (lines 84-88) ----
NpmPack_NoThrow == ExecChecked_NoThrow("npm_pack", "npm pack", "rn_init")
NpmPack ==
  ExecChecked("npm_pack", "npm pack", {"Failed to pack react-native"}, "rn_init")

\* ---- scaffold (lines 93-111) ----
RnInit ==
  TryExecNTimes("rn_init", "react-native init EndToEndTest", numberOfRetries,
                "rn_init_recover",
                {"Failed to execute react-native init",
                 "Most common reason is npm registry connectivity, try again"},
                "npm_install_package")

RnInitRecover_Repack == Recovery("rn_init_recover", TRUE, "npm_pack")
RnInitRecover_NoRm == Recovery("rn_init_recover", FALSE, "rn_init")
RnInitRecover == Recovery("rn_init_recover", TRUE, "rn_init")

\* ---- dependency installation (lines 118-135) ----
NpmInstallPackage ==
  ExecUnchecked("npm_install_package", "npm install PACKAGE", "npm_install")

NpmInstall_Once ==
  ExecChecked("npm_install", "npm install",
              {"Failed to execute npm install",
               "Most common reason is npm registry connectivity, try again"},
              AfterNpmInstall)
NpmInstall ==
  TryExecNTimes("npm_install", "npm install", numberOfRetries,
                "npm_install_recover",
                {"Failed to execute npm install",
                 "Most common reason is npm registry connectivity, try again"},
                AfterNpmInstall)

NpmInstallRecover == Recovery("npm_install_recover", FALSE, "npm_install")

\* ---- Android end-to-end tests (lines 137-206) ----
YarnAddAppium ==
  TryExecNTimes("yarn_add_appium", "yarn add --dev appium mocha wd", numberOfRetries,
                "yarn_add_appium",
                {"Failed to install appium",
                 "Most common reason is npm registry connectivity, try again"},
                "gradle_deps")

GradleDeps ==
  ExecUnchecked("gradle_deps", "gradlew :app:copyDownloadableDepsToLibs", "rm_keystore")

RmKeystore ==
  ExecUnchecked("rm_keystore", "rm android/app/debug.keystore", "keytool")

Keytool ==
  ExecChecked("keytool", "keytool -genkey", {"Key could not be generated"}, "spawn_appium")

\* const appiumProcess = spawn('node', [...]); APPIUM_PID = appiumProcess.pid;
SpawnAppium ==
  /\ pc = "spawn_appium"
  /\ spawned' = spawned \cup {[pid |-> NewPid, kind |-> "appium"]}
  /\ APPIUM_PID' = NewPid
  /\ pc' = "run_android"
  /\ UNCHANGED <<argvVars, SERVER_PID, iosTestType, killVars, retryVars, finalRuns,
                 exitStatus, executed, anyNonZero, messages, exitCode, thrown, failedStage, uninspected>>

RunAndroid ==
  ExecChecked("run_android", "react-native run-android",
              {"could not execute react-native run-android"}, "spawn_packager_android")

SpawnPackagerAndroid_NoSleep ==
  /\ pc = "spawn_packager_android"
  /\ spawned' = spawned \cup {[pid |-> NewPid, kind |-> "packager"]}
  /\ SERVER_PID' = NewPid
  /\ pc' = "mocha"
  /\ UNCHANGED <<argvVars, APPIUM_PID, iosTestType, killVars, retryVars, finalRuns,
                 exitStatus, executed, anyNonZero, messages, exitCode, thrown, failedStage, uninspected>>
\* const packagerProcess = spawn('yarn', ['start', ...]); SERVER_PID = packagerProcess.pid;
SpawnPackagerAndroid ==
  /\ pc = "spawn_packager_android"
  /\ spawned' = spawned \cup {[pid |-> NewPid, kind |-> "packager"]}
  /\ SERVER_PID' = NewPid
  /\ pc' = "sleep_android"
  /\ UNCHANGED <<argvVars, APPIUM_PID, iosTestType, killVars, retryVars, finalRuns,
                 exitStatus, executed, anyNonZero, messages, exitCode, thrown, failedStage, uninspected>>

SleepAndroid == ExecUnchecked("sleep_android", "sleep 15s", "mocha")

Mocha ==
  TryExecNTimes("mocha", "mocha android-e2e-test.js", numberOfRetries,
                "mocha_recover",
                {"Failed to run Android end-to-end tests", "Most likely the code is broken"},
                AfterAndroid)

MochaRecover == Recovery("mocha_recover", FALSE, "mocha")

\* ---- iOS / tvOS end-to-end tests (lines 208-277) ----
\* var iosTestType = argv.tvos ? 'tvOS' : 'iOS';
IosTestType == IF tvos THEN "tvOS" ELSE "iOS"

SpawnPackagerIos ==
  /\ pc = "spawn_packager_ios"
  /\ iosTestType' = IosTestType
  /\ spawned' = spawned \cup {[pid |-> NewPid, kind |-> "packager"]}
  /\ SERVER_PID' = NewPid
  /\ pc' = "sleep_ios"
  /\ UNCHANGED <<argvVars, APPIUM_PID, killVars, retryVars, finalRuns,
                 exitStatus, executed, anyNonZero, messages, exitCode, thrown, failedStage, uninspected>>

SleepIos == ExecUnchecked("sleep_ios", "sleep 15s", "curl_warmup")

CurlWarmup == ExecUnchecked("curl_warmup", "curl localhost:8081/index.bundle", "pod_install")

PodInstall == ExecUnchecked("pod_install", "pod install", "xcodebuild")

\* destination, sdk and scheme chosen inside the retried operation
XcodeDestination ==
  IF tvos THEN "platform=tvOS Simulator,name=Apple TV,OS=11.4"
  ELSE "platform=iOS Simulator,name=iPhone 6s,OS=12.2"

XcodeSdk == IF tvos THEN "appletvsimulator" ELSE "iphonesimulator"

XcodeScheme_IosWins == IF ios THEN "EndToEndTest" ELSE "EndToEndTest-tvOS"
XcodeScheme == IF tvos THEN "EndToEndTest-tvOS" ELSE "EndToEndTest"

XcodebuildCmd ==
  "xcodebuild -destination " \o XcodeDestination \o " -scheme " \o XcodeScheme
     \o " -sdk " \o XcodeSdk \o " test"

Xcodebuild ==
  TryExecNTimes("xcodebuild", XcodebuildCmd, numberOfRetries,
                "xcodebuild_recover",
                {"Failed to run " \o IosTestType \o " end-to-end tests",
                 "Most likely the code is broken"},
                AfterIos)

XcodebuildRecover == Recovery("xcodebuild_recover", FALSE, "xcodebuild")

\* ---- JavaScript end-to-end tests (lines 279-308) ----
BundleAndroid ==
  ExecChecked("bundle_android", "react-native bundle --platform android",
              {"Could not build Android bundle"}, "bundle_ios")

BundleIos ==
  ExecChecked("bundle_ios", "react-native bundle --platform ios",
              {"Could not build iOS bundle"}, "flow_check")

FlowCheck_NoThrow == ExecChecked_NoThrow("flow_check", "flow check", "try_end")
FlowCheck ==
  ExecChecked("flow_check", "flow check", {"Flow check failed."}, "try_end")

\* exitCode = 0;  (line 309) -- the try body completed
TryEnd ==
  /\ pc = "try_end"
  /\ exitCode' = 0
  /\ pc' = "finally"
  /\ UNCHANGED <<argvVars, procVars, killVars, retryVars, finalRuns, exitStatus,
                 executed, anyNonZero, messages, thrown, failedStage, uninspected>>

\* ---- finally (lines 310-322) ----
AfterKillPackager == IF APPIUM_PID # NoPid THEN "kill_appium" ELSE "after_finally"

Finally_Nested ==
  /\ pc = "finally"
  /\ finalRuns' = finalRuns + 1
  /\ pc' = IF SERVER_PID # NoPid THEN "kill_packager" ELSE "after_finally"
  /\ UNCHANGED <<argvVars, procVars, killVars, retryVars, exitStatus,
                 executed, anyNonZero, messages, exitCode, thrown, failedStage, uninspected>>
\* entering the finally block: if (SERVER_PID) ... if (APPIUM_PID) ...
Finally ==
  /\ pc = "finally"
  /\ finalRuns' = finalRuns + 1
  /\ pc' = IF SERVER_PID # NoPid THEN "kill_packager" ELSE AfterKillPackager
  /\ UNCHANGED <<argvVars, procVars, killVars, retryVars, exitStatus,
                 executed, anyNonZero, messages, exitCode, thrown, failedStage, uninspected>>

\* exec(`kill -9 ${SERVER_PID}`);
KillPackager ==
  /\ pc = "kill_packager"
  /\ executed' = executed \cup {"kill -9 SERVER_PID"}
  /\ killedByPid' = killedByPid \cup {SERVER_PID}
  /\ terminated' = terminated \cup {SERVER_PID}
  /\ pc' = "sweep_port"
  /\ UNCHANGED <<argvVars, procVars, sweeps, retryVars, finalRuns, exitStatus,
                 anyNonZero, messages, exitCode, thrown, failedStage, uninspected>>

LivePackagers == {p.pid : p \in {q \in spawned : q.kind = "packager"}} \ terminated

\* exec("lsof -i tcp:8081 | awk 'NR!=1 {print $2}' | xargs kill");
\* whichever processes still hold the port are signalled
SweepPort ==
  /\ pc = "sweep_port"
  /\ executed' = executed \cup {"lsof -i tcp:8081 | xargs kill"}
  /\ sweeps' = sweeps + 1
  /\ \E bound \in SUBSET LivePackagers : terminated' = terminated \cup bound
  /\ pc' = AfterKillPackager
  /\ UNCHANGED <<argvVars, procVars, killedByPid, retryVars, finalRuns, exitStatus,
                 anyNonZero, messages, exitCode, thrown, failedStage, uninspected>>

\* exec(`kill -9 ${APPIUM_PID}`);
KillAppium ==
  /\ pc = "kill_appium"
  /\ executed' = executed \cup {"kill -9 APPIUM_PID"}
  /\ killedByPid' = killedByPid \cup {APPIUM_PID}
  /\ terminated' = terminated \cup {APPIUM_PID}
  /\ pc' = "after_finally"
  /\ UNCHANGED <<argvVars, procVars, sweeps, retryVars, finalRuns, exitStatus,
                 anyNonZero, messages, exitCode, thrown, failedStage, uninspected>>

\* ---- leaving the script ----
\* exit(exitCode);  (line 323) -- reached when the try body did not throw
Exit ==
  /\ pc = "after_finally"
  /\ ~thrown
  /\ exitStatus' = exitCode
  /\ pc' = "exited"
  /\ UNCHANGED <<argvVars, procVars, killVars, retryVars, finalRuns,
                 executed, anyNonZero, messages, exitCode, thrown, failedStage, uninspected>>

\* the Error thrown in the try body is not caught: after the finally block it
\* propagates, line 323 is not reached and the runtime ends the process with
\* status 1
UncaughtError ==
  /\ pc = "after_finally"
  /\ thrown
  /\ exitStatus' = 1
  /\ pc' = "exited"
  /\ UNCHANGED <<argvVars, procVars, killVars, retryVars, finalRuns,
                 executed, anyNonZero, messages, exitCode, thrown, failedStage, uninspected>>

Next ==
  \/ CliInstall \/ SkipCliInstall
  \/ GradleInstall \/ FlowInstall \/ FlowInstallRecover
  \/ NpmPack
  \/ RnInit \/ RnInitRecover
  \/ NpmInstallPackage \/ NpmInstall \/ NpmInstallRecover
  \/ YarnAddAppium \/ GradleDeps \/ RmKeystore \/ Keytool
  \/ SpawnAppium \/ RunAndroid \/ SpawnPackagerAndroid \/ SleepAndroid
  \/ Mocha \/ MochaRecover
  \/ SpawnPackagerIos \/ SleepIos \/ CurlWarmup \/ PodInstall
  \/ Xcodebuild \/ XcodebuildRecover
  \/ BundleAndroid \/ BundleIos \/ FlowCheck
  \/ TryEnd
  \/ Finally \/ KillPackager \/ SweepPort \/ KillAppium
  \/ Exit \/ UncaughtError

Spec == Init /\ [][Next]_vars

\* every exec() returns and the interpreter runs the next statement
FairSpec == Spec /\ WF_vars(Next)

TypeOK ==
  /\ exitCode \in {Undefined, 0, 1}
  /\ exitStatus \in {Undefined} \cup ExitCodes
  /\ finalRuns \in Nat /\ sweeps \in Nat
  /\ Len(rTrace) <= 2 * (MaxRetries + 2)

\* ---- vocabulary of the properties ----
Exited == pc = "exited"
FinalCmds == {"kill -9 SERVER_PID", "lsof -i tcp:8081 | xargs kill", "kill -9 APPIUM_PID"}
FinalPcs == {"kill_packager", "sweep_port", "kill_appium", "after_finally", "exited"}
StageCmdsRun == executed \ FinalCmds
PidsOf(kind) == {p.pid : p \in {q \in spawned : q.kind = kind}}
Live(kind) == PidsOf(kind) \ terminated
CmdCli == "yarn global add react-native-cli"
OpsOf(tr) == SelectSeq(tr, LAMBDA e : e.ev = "op")
Last(sq) == sq[Len(sq)]

\* C1: the finally block is entered exactly once per run -- never twice, and
\* once by the time the process has ended, after success and after a throw
\* alike -- and once it has been entered no try-body command runs any more.
C1_FinalizationOnce ==
  /\ [](finalRuns <= 1 /\ (Exited => finalRuns = 1))
  /\ [][finalRuns >= 1 =>
          /\ pc' \in FinalPcs
          /\ StageCmdsRun' = StageCmdsRun
          /\ rTrace' = rTrace
          /\ finalRuns' = finalRuns]_vars

C1_Witness ==
  /\ Exited /\ thrown /\ finalRuns = 1
  /\ failedStage = "mocha android-e2e-test.js"
  /\ "kill -9 APPIUM_PID" \in executed

\* C2 (as claimed): when the run has ended, every spawned background process
\* has been the target of a kill by process identifier, and a kill was issued
\* only for kinds of process that were spawned.
C2_EverySpawnedKilledByPid ==
  /\ Exited => \A p \in spawned : p.pid \in killedByPid
  /\ "kill -9 SERVER_PID" \in executed => PidsOf("packager") # {}
  /\ "kill -9 APPIUM_PID" \in executed => PidsOf("appium") # {}
  /\ killedByPid \subseteq {p.pid : p \in spawned}

C4_SetupFailureStopsRun ==
  (~skipCliInstall /\ failedStage = CmdCli) =>
     /\ StageCmdsRun = {CmdCli}
     /\ spawned = {}
     /\ Exited => exitStatus = 1

C4_Witness ==
  /\ Exited /\ ~skipCliInstall /\ failedStage = CmdCli /\ android /\ js /\ exitStatus = 1

\* C5: with --skip-cli-install the global CLI install is never invoked and
\* the script moves on to the first following stage.
FirstAfterSetup ==
  IF android THEN "gradlew :ReactAndroid:installArchives"
  ELSE IF js THEN "npm install --save-dev flow-bin" ELSE "npm pack"

C5_SkipSetup ==
  skipCliInstall =>
     /\ CmdCli \notin executed
     /\ failedStage # CmdCli
     /\ pc # "cli_install" => (pc = AfterCli \/ FirstAfterSetup \in executed)

C5_Witness ==
  skipCliInstall /\ FirstAfterSetup \in executed /\ CmdCli \notin executed

\* C6: a Retrier call with attempt count N >= 1 invokes the operation at most
\* N times, every attempt before the last one failed (nothing is invoked after
\* a success), a successful attempt makes the call return success at once,
\* and a call that returns failure has made N attempts and returns the code
\* of the last one.
C6_RetrierAttempts ==
  (rCall # "none" /\ rN >= 1) =>
    LET ops == OpsOf(rTrace)
        n == Len(ops)
    IN  /\ n >= 1 /\ n <= rN
        /\ \A i \in 1..(n - 1) : ops[i].code # 0
        /\ Last(ops).code = 0 => rResult = 0
        /\ rResult # Undefined => rResult = Last(ops).code
        /\ (rResult # Undefined /\ rResult # 0) => n = rN
        /\ rResult = Undefined => (Last(ops).code # 0 /\ n < rN)

C6_Witness ==
  /\ rCall = "npm_install" /\ rN >= 2 /\ OpCount(rTrace) = rN
  /\ rTrace[1].code = 1 /\ rResult = 2

\* C7: in a Retrier call that was given a recovery action, attempts and
\* recoveries alternate, every recovery follows a failed attempt and is
\* followed by another attempt, and a call that has returned has run the
\* recovery exactly (attempts - 1) times, none of them after the last attempt.
HasRecovery(call) == call \notin {"none", "yarn_add_appium"}

C7_RetrierRecoveries ==
  HasRecovery(rCall) =>
    /\ \A i \in 1..Len(rTrace) : rTrace[i].ev = (IF i % 2 = 1 THEN "op" ELSE "recover")
    /\ \A i \in 1..Len(rTrace) : rTrace[i].ev = "recover" => rTrace[i - 1].code # 0
    /\ Last(rTrace).ev = "recover" => (pc = rCall /\ OpCount(rTrace) < rN)
    /\ rResult # Undefined =>
         /\ Last(rTrace).ev = "op"
         /\ RecoverCount(rTrace) = OpCount(rTrace) - 1
    /\ rResult = Undefined =>
         (Last(rTrace).ev = "op" => (pc # rCall /\ pc # "finally"))

C7_Witness ==
  /\ rCall = "mocha" /\ rN >= 2 /\ rResult # Undefined /\ rResult # 0
  /\ OpCount(rTrace) = rN /\ RecoverCount(rTrace) = rN - 1

\* C8 (as claimed): at every moment at most one spawned packager and at most
\* one spawned appium server is live (spawned and not yet terminated).
C8_AtMostOneLivePerKind ==
  /\ Cardinality(Live("packager")) <= 1
  /\ Cardinality(Live("appium")) <= 1

\* C9: when the react-native init call has returned success after k failed
\* attempts, k is below the retry count, init ran k + 1 times, the recovery
\* that removes EndToEndTest ran k times, each one between a failed attempt
\* and the next attempt, and the script is at the dependency installation.
InitFailures ==
  Cardinality({i \in 1..Len(rTrace) : rTrace[i].ev = "op" /\ rTrace[i].code # 0})

C9_ScaffoldRetry ==
  (rCall = "rn_init" /\ rResult = 0 /\ InitFailures < numberOfRetries) =>
    LET k == InitFailures
    IN  /\ rN = numberOfRetries
        /\ OpCount(rTrace) = k + 1
        /\ RecoverCount(rTrace) = k
        /\ Len(rTrace) = 2 * k + 1
        /\ \A i \in 1..k : /\ rTrace[2 * i - 1].ev = "op" /\ rTrace[2 * i - 1].code # 0
                           /\ rTrace[2 * i].ev = "recover" /\ rTrace[2 * i].rm
                           /\ rTrace[2 * i + 1].ev = "op"
        /\ \/ pc = "npm_install_package"
           \/ pc = "npm_install" /\ "npm install PACKAGE" \in executed
        /\ ~thrown

C9_Witness ==
  /\ android /\ retries = 2 /\ rCall = "rn_init" /\ rResult = 0
  /\ OpCount(rTrace) = 2 /\ RecoverCount(rTrace) = 1
  /\ pc = "npm_install" /\ "npm install PACKAGE" \in executed

\* C10: when js is the only target no process is ever spawned, no handle is
\* set, the finally block issues no kill and no port sweep, and a failing
\* flow check (reached after both bundle commands succeeded) emits
\* 'Flow check failed.' and ends the process with status 1.
JsOnly == js /\ ~android /\ ~ios /\ ~tvos

C10_JsOnly ==
  JsOnly =>
    /\ spawned = {} /\ SERVER_PID = NoPid /\ APPIUM_PID = NoPid
    /\ killedByPid = {} /\ sweeps = 0 /\ executed \cap FinalCmds = {}
    /\ failedStage = "flow check" =>
         /\ {"react-native bundle --platform android",
             "react-native bundle --platform ios"} \subseteq executed
         /\ "Flow check failed." \in messages
         /\ exitCode = 1
         /\ pc \in {"finally", "after_finally", "exited"}
         /\ Exited => exitStatus = 1

C10_Witness ==
  JsOnly /\ Exited /\ failedStage = "flow check" /\ exitStatus = 1 /\ finalRuns = 1

\* C11 (as claimed): the attempt count handed to every Retrier call is a
\* positive integer, equal to the supplied --retries value and 1 when the
\* flag is absent.
C11_RetryCountPositive ==
  rCall # "none" =>
    /\ rN >= 1
    /\ rN = (IF retries = 0 THEN 1 ELSE retries)

\* ---- more vocabulary ----
AfterTry == {"finally"} \cup FinalPcs
AndroidCmds ==
  {"yarn add --dev appium mocha wd", "gradlew :app:copyDownloadableDepsToLibs",
   "rm android/app/debug.keystore", "keytool -genkey", "react-native run-android",
   "mocha android-e2e-test.js"}
XcodeCmdIos ==
  "xcodebuild -destination platform=iOS Simulator,name=iPhone 6s,OS=12.2"
     \o " -scheme EndToEndTest -sdk iphonesimulator test"
XcodeCmdTvos ==
  "xcodebuild -destination platform=tvOS Simulator,name=Apple TV,OS=11.4"
     \o " -scheme EndToEndTest-tvOS -sdk appletvsimulator test"
IosCmds == {"curl localhost:8081/index.bundle", "pod install", XcodeCmdIos, XcodeCmdTvos}
JsCmds ==
  {"react-native bundle --platform android", "react-native bundle --platform ios",
   "flow check"}
PlatformCmds == AndroidCmds \cup IosCmds \cup JsCmds \cup {"sleep 15s"}
\* bare exec() commands that do the work of a stage the specification calls fatal
MandatoryBare ==
  {"npm install PACKAGE", "gradlew :app:copyDownloadableDepsToLibs", "pod install"}

\* C12 (as claimed): once a mandatory unretried command has returned non-zero
\* or a Retrier call has returned failure, a message has been emitted,
\* exitCode is 1 and the script is in (or past) the finally block, so no
\* further stage command runs.
C12_FailureGoesToFinally ==
  (failedStage # "none" \/ uninspected \cap MandatoryBare # {}) =>
     /\ messages # {}
     /\ exitCode = 1
     /\ pc \in AfterTry

\* C13 (as claimed): after a failed install of the packaged artifact, or a
\* failed (retries exhausted) install of the declared dependencies, no
\* per-platform test command runs, no server is spawned, and the process
\* ends with status 1.
C13_DependencyInstallFatal ==
  ("npm install PACKAGE" \in uninspected \/ failedStage = "npm install") =>
     /\ executed \cap PlatformCmds = {}
     /\ spawned = {}
     /\ Exited => exitStatus = 1

\* C14 (as claimed): in a selected platform branch a non-zero exit of a
\* command of the branch is fatal; in particular after a failed
\* copyDownloadableDepsToLibs no later Android command runs, after a failed
\* pod install the native test does not run, and the process ends with
\* status 1.
C14_BranchFailureFatal ==
  /\ failedStage \in (AndroidCmds \cup IosCmds \cup JsCmds) =>
        (pc \in AfterTry /\ (Exited => exitStatus = 1))
  /\ "gradlew :app:copyDownloadableDepsToLibs" \in uninspected =>
        /\ executed \cap {"rm android/app/debug.keystore", "keytool -genkey",
                          "react-native run-android", "mocha android-e2e-test.js"} = {}
        /\ spawned = {}
        /\ Exited => exitStatus = 1
  /\ "pod install" \in uninspected =>
        /\ executed \cap {XcodeCmdIos, XcodeCmdTvos} = {}
        /\ Exited => exitStatus = 1

\* ---- stages of the pipeline, by script position ----
StageRank(p) ==
  CASE p = "cli_install" -> 1
    [] p = "gradle_install" -> 2
    [] p \in {"flow_install", "flow_install_recover"} -> 3
    [] p = "npm_pack" -> 4
    [] p \in {"rn_init", "rn_init_recover"} -> 5
    [] p \in {"npm_install_package", "npm_install", "npm_install_recover"} -> 6
    [] p \in {"yarn_add_appium", "gradle_deps", "rm_keystore", "keytool", "spawn_appium",
              "run_android", "spawn_packager_android", "sleep_android", "mocha",
              "mocha_recover"} -> 7
    [] p \in {"spawn_packager_ios", "sleep_ios", "curl_warmup", "pod_install",
              "xcodebuild", "xcodebuild_recover"} -> 8
    [] p \in {"bundle_android", "bundle_ios", "flow_check"} -> 9
    [] p = "try_end" -> 10
    [] p \in {"finally", "kill_packager", "sweep_port", "kill_appium", "after_finally"} -> 11
    [] p = "exited" -> 12

CmdStages(c) ==
  CASE c = CmdCli -> {1}
    [] c = "gradlew :ReactAndroid:installArchives" -> {2}
    [] c = "npm install --save-dev flow-bin" -> {3}
    [] c = "npm pack" -> {4}
    [] c = "react-native init EndToEndTest" -> {5}
    [] c \in {"npm install PACKAGE", "npm install"} -> {6}
    [] c \in AndroidCmds -> {7}
    [] c \in IosCmds -> {8}
    [] c \in JsCmds -> {9}
    [] c = "sleep 15s" -> {7, 8}
    [] c = "sleep 10s" -> {3, 5, 6, 7, 8}
    [] c \in FinalCmds -> {11}

\* C15: the script position never moves to an earlier stage (Setup, android
\* pre-build, js pre-build, packaging, scaffold, dependency installation,
\* android tests, iOS/tvOS tests, js tests, finally, exit), so no stage is
\* entered twice, and every command is started while the script is in the
\* stage the command belongs to; the process ends only from the end of the
\* finally block.
C15_StageOrder ==
  [][/\ StageRank(pc') >= StageRank(pc)
     /\ \A c \in executed' \ executed :
           /\ StageRank(pc) \in CmdStages(c)
           /\ \A d \in executed \ {"sleep 10s", "sleep 15s"} :
                 \A sd \in CmdStages(d) : sd <= StageRank(pc)
     /\ pc' = "exited" => pc = "after_finally"]_vars

C15_Witness ==
  /\ Exited /\ ~thrown /\ ~skipCliInstall /\ android /\ ios /\ js
  /\ {CmdCli, "gradlew :ReactAndroid:installArchives", "npm install --save-dev flow-bin",
      "npm pack", "react-native init EndToEndTest", "npm install",
      "mocha android-e2e-test.js", XcodeCmdIos, "flow check",
      "kill -9 APPIUM_PID"} \subseteq executed

\* ---- the commands passed to the Retrier, by call site ----
CallCmd(call) ==
  CASE call = "flow_install" -> "npm install --save-dev flow-bin"
    [] call = "rn_init" -> "react-native init EndToEndTest"
    [] call = "npm_install" -> "npm install"
    [] call = "yarn_add_appium" -> "yarn add --dev appium mocha wd"
    [] call = "mocha" -> "mocha android-e2e-test.js"
    [] call = "xcodebuild" -> XcodebuildCmd
    [] call = "none" -> "none"
RetriedCmds ==
  {"npm install --save-dev flow-bin", "react-native init EndToEndTest", "npm install",
   "yarn add --dev appium mocha wd", "mocha android-e2e-test.js", XcodeCmdIos, XcodeCmdTvos}
NetworkCmds == RetriedCmds \cup {CmdCli, "npm install PACKAGE"}
AttemptsOf(c) == IF CallCmd(rCall) = c THEN OpCount(rTrace) ELSE 1
OncePcCmd(p) ==
  CASE p = "cli_install" -> CmdCli
    [] p = "gradle_install" -> "gradlew :ReactAndroid:installArchives"
    [] p = "npm_pack" -> "npm pack"
    [] p = "npm_install_package" -> "npm install PACKAGE"
OncePcs == {"cli_install", "gradle_install", "npm_pack", "npm_install_package"}

C17_FinallyOrder ==
  /\ sweeps <= 1
  /\ sweeps = 1 => /\ SERVER_PID # NoPid
                   /\ SERVER_PID \in killedByPid
                   /\ "kill -9 SERVER_PID" \in executed
  /\ "kill -9 SERVER_PID" \in executed => SERVER_PID # NoPid
  /\ "kill -9 APPIUM_PID" \in executed => (APPIUM_PID # NoPid /\ APPIUM_PID \in killedByPid)
  /\ pc \in {"after_finally", "exited"} =>
        /\ (SERVER_PID # NoPid) <=> (sweeps = 1)
        /\ (APPIUM_PID # NoPid) <=> ("kill -9 APPIUM_PID" \in executed)

C17_Witness ==
  /\ Exited /\ APPIUM_PID # NoPid /\ SERVER_PID = NoPid
  /\ "kill -9 APPIUM_PID" \in executed /\ sweeps = 0

\* C18: whenever the Android mocha test is about to run, is being retried or
\* has run, appium and the packager have been spawned and sleep 15s has been
\* executed, and while the test is running or being retried both are live;
\* when react-native run-android fails only APPIUM_PID is set, no packager
\* exists, and the finally block kills appium without kill -9 SERVER_PID or
\* a port sweep.
C18_AndroidServers ==
  /\ (pc \in {"mocha", "mocha_recover"} \/ "mocha android-e2e-test.js" \in executed) =>
        /\ PidsOf("appium") = {APPIUM_PID} /\ APPIUM_PID # NoPid
        /\ SERVER_PID # NoPid /\ SERVER_PID \in PidsOf("packager")
        /\ "sleep 15s" \in executed
  /\ pc \in {"mocha", "mocha_recover"} =>
        /\ APPIUM_PID \in Live("appium")
        /\ SERVER_PID \in Live("packager")
  /\ failedStage = "react-native run-android" =>
        /\ APPIUM_PID # NoPid /\ SERVER_PID = NoPid
        /\ PidsOf("packager") = {}
        /\ sweeps = 0 /\ "kill -9 SERVER_PID" \notin executed
        /\ "mocha android-e2e-test.js" \notin executed
        /\ pc \in {"after_finally", "exited"} =>
              (APPIUM_PID \in killedByPid /\ Live("appium") = {})

C18_Witness ==
  /\ pc = "mocha" /\ rCall = "mocha" /\ OpCount(rTrace) >= 1
  /\ RecoverCount(rTrace) >= 1
  /\ APPIUM_PID \in Live("appium") /\ SERVER_PID \in Live("packager")

\* C19: the iOS/tvOS block is entered at most once and spawns one packager;
\* at most one of the two xcodebuild variants is ever run, and with --tvos
\* (also together with --ios) it is the tvOS one (tvOS destination, sdk and
\* scheme) while the iOS variant is never run.
C19_IosBranchOnce ==
  /\ [](/\ Cardinality(PidsOf("packager")) <=
             (IF android THEN 1 ELSE 0) + (IF ios \/ tvos THEN 1 ELSE 0)
        /\ ~({XcodeCmdIos, XcodeCmdTvos} \subseteq executed)
        /\ tvos => (XcodeCmdIos \notin executed /\ iosTestType \in {"none", "tvOS"})
        /\ ~tvos => (XcodeCmdTvos \notin executed /\ iosTestType \in {"none", "iOS"})
        /\ rCall = "xcodebuild" =>
              (IF tvos THEN XcodeCmdTvos ELSE XcodeCmdIos) \in executed)
  /\ [][(pc = "spawn_packager_ios") =>
           (iosTestType = "none" /\ pc' = "sleep_ios"
            /\ Cardinality(spawned') = Cardinality(spawned) + 1)]_vars
  /\ [][(pc # "spawn_packager_ios") => iosTestType' = iosTestType]_vars

C19_Witness ==
  /\ ios /\ tvos /\ android /\ Exited /\ ~thrown
  /\ XcodeCmdTvos \in executed /\ iosTestType = "tvOS"

\* C20: every run ends -- it reaches the finally block and then the end of
\* the process -- in every Retrier call the command is invoked no more than
\* max(1, N) times, and the script never returns to an earlier stage.
C20_Terminates ==
  /\ <>(Exited /\ finalRuns = 1)
  /\ [](rCall # "none" => OpCount(rTrace) <= (IF rN >= 1 THEN rN ELSE 1))
  /\ [][StageRank(pc') >= StageRank(pc)]_vars

C20_Witness ==
  /\ Exited /\ finalRuns = 1 /\ rCall = "xcodebuild"
  /\ rN >= 2 /\ OpCount(rTrace) = rN /\ android
====
